---- MODULE Spec2Model ----
(***************************************************************************)
(* Zone assignment and persistence engine of the Multi-Zone Delivery       *)
(* Planner.  The repository ships three Streamlit scripts: v1.1 (draw and  *)
(* save only), v1.3 (adds import and export) and v1.4 (adds the upload     *)
(* fingerprint guard).  `version` selects the script; the blocks the       *)
(* scripts share are modelled once.                                        *)
(*                                                                         *)
(* The session state is the ordered dictionary `zones` (label -> zone) and *)
(* in v1.4 the upload fingerprint `last_upload_hash`.  One script run      *)
(* executes the import block and then the save block; the blocks only      *)
(* communicate through the session state, so each block is one action.     *)
(*                                                                         *)
(* Geometry lives on an integer grid.  Polygons are single rectilinear     *)
(* rings with integer vertices, for which the cell comparison used for     *)
(* `equals` and the crossing-number test used for `within` are exact.      *)
(* A label is a JSON value: a string, or a number when a feature's "name"  *)
(* property is one.                                                        *)
(***************************************************************************)
EXTENDS Integers, Sequences, FiniteSets, TLC

VARIABLES
    version,            \* which of the three scripts is running
    zones,              \* st.session_state.zones, in insertion order
    last_upload_hash,   \* st.session_state.last_upload_hash: <<>> is None
    ops,                \* number of block executions so far (bounded)
    last                \* history: the block executed last, with its inputs

vars == <<version, zones, last_upload_hash, ops, last>>

\* Length of a session, in block executions.
MaxOps == 3

Versions == {"v1.1", "v1.3", "v1.4"}

(***************************************************************************)
(* Customer roster                                                         *)
(***************************************************************************)
\* A and C sit side by side; C lies on the east edge of the square around A.
gdf ==
    << [id |-> "A", pt |-> <<1, 1>>],
       [id |-> "C", pt |-> <<2, 1>>],
       [id |-> "B", pt |-> <<5, 5>>] >>

(***************************************************************************)
(* Geometry descriptions (GeoJSON-style) the adapter can hand in           *)
(***************************************************************************)
SquareA ==
    [type |-> "Polygon",
     coordinates |-> << << <<0, 0>>, <<2, 0>>, <<2, 2>>, <<0, 2>>, <<0, 0>> >> >>]

\* The same region: other start vertex, other winding, ring left open.
SquareA2 ==
    [type |-> "Polygon",
     coordinates |-> << << <<2, 2>>, <<2, 0>>, <<0, 0>>, <<0, 2>> >> >>]

SquareB ==
    [type |-> "Polygon",
     coordinates |-> << << <<4, 4>>, <<6, 4>>, <<6, 6>>, <<4, 6>>, <<4, 4>> >> >>]

Big ==
    [type |-> "Polygon",
     coordinates |-> << << <<0, 0>>, <<6, 0>>, <<6, 6>>, <<0, 6>>, <<0, 0>> >> >>]

\* Unknown type tag.
BadType == [type |-> "Blob", coordinates |-> << >>]

NoGeom == [kind |-> "None", ring |-> << >>]

(***************************************************************************)
(* shapely: shape, mapping, within, equals                                 *)
(***************************************************************************)
CloseRing(ring) ==
    IF ring[1] = ring[Len(ring)] THEN ring ELSE Append(ring, ring[1])

\* shape(ob): raises (ok = FALSE) on an unknown type tag or a ring too short;
\* an open ring is closed by repeating its first vertex.
shape(ob) ==
    IF ob.type # "Polygon" THEN [ok |-> FALSE, geom |-> NoGeom]
    ELSE IF Len(ob.coordinates) = 0 \/ Len(ob.coordinates[1]) < 3
    THEN [ok |-> FALSE, geom |-> NoGeom]
    ELSE [ok |-> TRUE,
          geom |-> [kind |-> "Polygon", ring |-> CloseRing(ob.coordinates[1])]]

\* mapping(geom): the stored ring, closed, under the Polygon tag.
mapping(geom) == [type |-> "Polygon", coordinates |-> << geom.ring >>]

Scale(s, v) == <<s * v[1], s * v[2]>>

\* Does the edge a-b cross the horizontal ray from p to the east?
CrossesRay(a, b, p) ==
    LET dy == b[2] - a[2]
        lhs == (p[1] - a[1]) * dy
        rhs == (p[2] - a[2]) * (b[1] - a[1])
    IN  /\ (a[2] > p[2]) # (b[2] > p[2])
        /\ IF dy > 0 THEN lhs < rhs ELSE lhs > rhs

\* Even-odd rule; ring coordinates are multiplied by s before the test.
PointInRing(ring, p, s) ==
    LET crossing == {k \in 1..(Len(ring) - 1) :
                        CrossesRay(Scale(s, ring[k]), Scale(s, ring[k + 1]), p)}
    IN  Cardinality(crossing) % 2 = 1

OnSegment(a, b, p) ==
    /\ (b[1] - a[1]) * (p[2] - a[2]) = (b[2] - a[2]) * (p[1] - a[1])
    /\ (IF a[1] < b[1] THEN a[1] ELSE b[1]) <= p[1]
    /\ p[1] <= (IF a[1] < b[1] THEN b[1] ELSE a[1])
    /\ (IF a[2] < b[2] THEN a[2] ELSE b[2]) <= p[2]
    /\ p[2] <= (IF a[2] < b[2] THEN b[2] ELSE a[2])

OnBoundary(ring, p) ==
    \E k \in 1..(Len(ring) - 1) : OnSegment(ring[k], ring[k + 1], p)

\* point.within(geom): the point lies in the interior, not on the boundary.
within(p, geom) ==
    /\ ~OnBoundary(geom.ring, p)
    /\ PointInRing(geom.ring, p, 1)

\* Unit cells <<i, j>> = [i, i+1] x [j, j+1] of the map.
Grid == (0..5) \X (0..5)

\* Is the cell covered by the polygon?  Decided at the cell centre, in
\* doubled coordinates.
Covers(geom, c) ==
    PointInRing(geom.ring, <<2 * c[1] + 1, 2 * c[2] + 1>>, 2)

\* a.equals(b): the two polygons cover the same region.
equals(a, b) == \A c \in Grid : Covers(a, c) <=> Covers(b, c)

(***************************************************************************)
(* JSON values: labels, colors, records                                    *)
(***************************************************************************)
Str(t) == [kind |-> "str", text |-> t]
Num(t) == [kind |-> "int", text |-> t]

\* Key "name" / "color" missing from a properties object.
NoName == [kind |-> "absent", text |-> ""]
NoColor == "<absent>"

Rec(g, n, c) == [geometry |-> g, name |-> n, color |-> c]

\* f"Zone {n}"
ZoneLabel(n) == Str("Zone " \o ToString(n))

Range(s) == {s[i] : i \in DOMAIN s}

(***************************************************************************)
(* Files the operator can upload: raw bytes and the text they decode to.   *)
(* top = "invalid" is a text json.loads rejects; "FeatureCollection" is an *)
(* object with type = FeatureCollection and a features list; "dict" is any *)
(* other object, listed as its (key, value) members in file order.         *)
(***************************************************************************)
UploadedFiles ==
    << [bytes |-> <<123, 34, 120, 125>>,
        text  |-> [top |-> "invalid", records |-> << >>]],
       [bytes |-> <<123, 70, 49>>,
        text  |-> [top |-> "FeatureCollection",
                   records |-> << Rec(SquareA2, NoName, "teal"),
                                  Rec(BadType, Str("Mid"), NoColor),
                                  Rec(SquareB, Str("South"), NoColor) >>]],
       \* The file above with its second geometry repaired.
       [bytes |-> <<123, 70, 49, 99>>,
        text  |-> [top |-> "FeatureCollection",
                   records |-> << Rec(SquareA2, NoName, "teal"),
                                  Rec(Big, Str("Mid"), NoColor),
                                  Rec(SquareB, Str("South"), NoColor) >>]],
       [bytes |-> <<123, 70, 50>>,
        text  |-> [top |-> "FeatureCollection",
                   records |-> << Rec(Big, NoName, NoColor),
                                  Rec(SquareB, Num("1"), "green") >>]],
       [bytes |-> <<123, 76>>,
        text  |-> [top |-> "dict",
                   records |-> << Rec(Big, Str("North"), NoColor),
                                  Rec(SquareB, Str("South"), "green"),
                                  Rec(SquareB, Str("East"), NoColor) >>]] >>

FileBytes == {f.bytes : f \in Range(UploadedFiles)}

\* What the operator can draw (Leaflet always yields a valid polygon).
Drawings == {SquareA, SquareA2, SquareB, Big}

\* What the operator can type into "Zone Label": NoName keeps the default.
TypedLabels == {NoName, Str("North")}

\* file_bytes.decode("utf-8")
decode(file_bytes) ==
    (CHOOSE f \in Range(UploadedFiles) : f.bytes = file_bytes).text

\* hash(file_bytes): deterministic within one process; a polynomial
\* fingerprint of the bytes, free of collisions on the files above.
RECURSIVE hash(_)
hash(b) ==
    IF b = << >> THEN 7
    ELSE (hash(SubSeq(b, 1, Len(b) - 1)) * 31 + b[Len(b)]) % 1000003

(***************************************************************************)
(* The zone dictionary                                                     *)
(***************************************************************************)
HasLabel(zs, label) == \E i \in DOMAIN zs : zs[i].label = label

\* zones[label] = zone: a known key keeps its place, a new key goes last.
setitem(zs, label, zone) ==
    IF HasLabel(zs, label)
    THEN [i \in DOMAIN zs |-> IF zs[i].label = label THEN zone ELSE zs[i]]
    ELSE Append(zs, zone)

\* Variant of inside: the rows the polygon touches (intersects, not within).
inside_touching(geom) ==
    SelectSeq(gdf, LAMBDA c : within(c.pt, geom) \/ OnBoundary(geom.ring, c.pt))

\* gdf[gdf.geometry.within(geom)]: the rows inside, in roster order.
inside(geom) == SelectSeq(gdf, LAMBDA c : within(c.pt, geom))

\* Variant of count_of: the size of the roster, len(gdf).
count_of_roster(rows) == Len(gdf)

\* len(inside)
count_of(rows) == Len(rows)

Zone(label, geom, color) ==
    LET rows == inside(geom)
    IN  [label |-> label, geometry |-> geom, data |-> rows,
         count |-> count_of(rows), color |-> color]

palette == <<"red", "blue", "green", "purple", "orange">>

\* Variant of draw_color: indexed by the store size after the insertion.
draw_color_after(zs) == palette[((Len(zs) + 1) % Len(palette)) + 1]

\* palette[len(zones) % len(palette)]
draw_color(zs) == palette[(Len(zs) % Len(palette)) + 1]

\* Variant of import_color: the record's own color is not read.
import_color_fixed(c) == "red"

\* props.get("color", "red") / info.get("color", "red")
import_color(c) == IF c = NoColor THEN "red" ELSE c

\* props.get("name", f"Zone {len(zones)+1}")
import_label(zs, n) == IF n = NoName THEN ZoneLabel(Len(zs) + 1) ELSE n

(***************************************************************************)
(* json.loads / json.dumps                                                 *)
(***************************************************************************)
RECURSIVE dict_of(_, _)
\* An object's members become a dict: a repeated key keeps its first place
\* and takes its last value.
dict_of(members, k) ==
    IF k = 0 THEN << >>
    ELSE LET d == dict_of(members, k - 1)
             m == members[k]
         IN  IF \E i \in DOMAIN d : d[i].name = m.name
             THEN [i \in DOMAIN d |-> IF d[i].name = m.name THEN m ELSE d[i]]
             ELSE Append(d, m)

\* json.loads(text): raises on a text that is not JSON.
json_loads(text) ==
    IF text.top = "invalid" THEN [ok |-> FALSE, data |-> text]
    ELSE IF text.top = "dict"
    THEN [ok |-> TRUE,
          data |-> [top |-> "dict",
                    records |-> dict_of(text.records, Len(text.records))]]
    ELSE [ok |-> TRUE, data |-> text]

\* json.dumps writes a dict key that is a number as its decimal string.
dumps_key(label) == Str(label.text)

(***************************************************************************)
(* Import block                                                            *)
(***************************************************************************)
RECURSIVE feature_loop(_, _, _)
\* for feat in data["features"]: an exception leaves the loop at once and
\* keeps what earlier records stored.
feature_loop(zs, feats, i) ==
    IF i > Len(feats) THEN [zones |-> zs, ok |-> TRUE]
    ELSE LET g == shape(feats[i].geometry)
             label == import_label(zs, feats[i].name)
             color == import_color(feats[i].color)
         IN  IF ~g.ok THEN [zones |-> zs, ok |-> FALSE]
             ELSE feature_loop(setitem(zs, label, Zone(label, g.geom, color)),
                               feats, i + 1)

RECURSIVE legacy_loop(_, _, _)
\* for label, info in data.items()
legacy_loop(zs, items, i) ==
    IF i > Len(items) THEN [zones |-> zs, ok |-> TRUE]
    ELSE LET g == shape(items[i].geometry)
             label == items[i].name
             color == import_color(items[i].color)
         IN  IF ~g.ok THEN [zones |-> zs, ok |-> FALSE]
             ELSE legacy_loop(setitem(zs, label, Zone(label, g.geom, color)),
                              items, i + 1)

\* The body of the try statement, from json.loads on.
import_text(zs, text) ==
    LET parsed == json_loads(text)
    IN  IF ~parsed.ok THEN [zones |-> zs, ok |-> FALSE]
        ELSE IF parsed.data.top = "FeatureCollection"
        THEN feature_loop(zs, parsed.data.records, 1)
        ELSE legacy_loop(zs, parsed.data.records, 1)

\* Variant of needs_import: the guard is left out, as in v1.3.
needs_import_always(ver, luh, file_bytes) == TRUE

\* v1.4: if file_hash != st.session_state.last_upload_hash
needs_import(ver, luh, file_bytes) ==
    ver = "v1.3" \/ luh # << hash(file_bytes) >>

\* v1.4 stores the fingerprint before the try statement; v1.3 has none.
hash_after(ver, luh, file_bytes) ==
    IF ver = "v1.4" THEN << hash(file_bytes) >> ELSE luh

import_block(ver, zs, luh, file_bytes) ==
    IF needs_import(ver, luh, file_bytes)
    THEN LET r == import_text(zs, decode(file_bytes))
         IN  [zones |-> r.zones,
              last_upload_hash |-> hash_after(ver, luh, file_bytes),
              outcome |-> IF r.ok THEN "success" ELSE "error"]
    ELSE [zones |-> zs, last_upload_hash |-> luh, outcome |-> "info"]

(***************************************************************************)
(* Export block                                                            *)
(***************************************************************************)
\* {label: {"geometry": mapping(zone["geometry"]), "color": zone["color"]}}
export_data(zs) ==
    [i \in DOMAIN zs |-> Rec(mapping(zs[i].geometry), zs[i].label, zs[i].color)]

\* js = json.dumps(export_data)
js(zs) ==
    [top |-> "dict",
     records |-> [i \in DOMAIN zs |->
                    [export_data(zs)[i] EXCEPT !.name = dumps_key(@)]]]

(***************************************************************************)
(* Save block                                                              *)
(***************************************************************************)
\* Variant of already_saved: the coordinate lists are compared, not the shapes.
already_saved_raw(zs, new_poly) ==
    \E i \in DOMAIN zs : new_poly.ring = zs[i].geometry.ring

\* any(new_poly.equals(z["geometry"]) for z in zones.values())
already_saved(zs, new_poly) ==
    \E i \in DOMAIN zs : equals(new_poly, zs[i].geometry)

\* st.text_input("Zone Label", value=f"Zone {len(zones)+1}")
text_input(zs, typed) == IF typed = NoName THEN ZoneLabel(Len(zs) + 1) ELSE typed

save_block(zs, drawing, typed) ==
    LET new_poly == shape(drawing).geom
        label == text_input(zs, typed)
    IN  IF already_saved(zs, new_poly)
        THEN [zones |-> zs, outcome |-> "hidden"]
        ELSE [zones |-> setitem(zs, label, Zone(label, new_poly, draw_color(zs))),
              outcome |-> "success"]

(***************************************************************************)
(* Specification                                                           *)
(***************************************************************************)
NoDrawing == [type |-> "None", coordinates |-> << >>]

Init ==
    /\ version \in Versions
    /\ zones = << >>
    /\ last_upload_hash = << >>
    /\ ops = 0
    /\ last = [op |-> "none", file_bytes |-> << >>, drawing |-> NoDrawing,
               typed |-> NoName, before |-> << >>, hash_before |-> << >>,
               outcome |-> "none", repeat |-> FALSE]

\* One run of the import block on an uploaded file (v1.3, v1.4).
ImportZones(file_bytes) ==
    LET r == import_block(version, zones, last_upload_hash, file_bytes)
    IN  /\ version # "v1.1"
        /\ ops < MaxOps
        /\ zones' = r.zones
        /\ last_upload_hash' = r.last_upload_hash
        /\ ops' = ops + 1
        /\ last' = [op |-> "import", file_bytes |-> file_bytes,
                    drawing |-> NoDrawing, typed |-> NoName,
                    before |-> zones, hash_before |-> last_upload_hash,
                    outcome |-> r.outcome,
                    repeat |-> (last.op = "import" /\ last.file_bytes = file_bytes)]
        /\ UNCHANGED version

\* One run of the save block with a drawing on the map and "Save Zone"
\* pressed; the button is not shown for a shape that is already saved.
SaveZone(drawing, typed) ==
    LET r == save_block(zones, drawing, typed)
    IN  /\ ops < MaxOps
        /\ zones' = r.zones
        /\ ops' = ops + 1
        /\ last' = [op |-> "save", file_bytes |-> << >>,
                    drawing |-> drawing, typed |-> typed,
                    before |-> zones, hash_before |-> last_upload_hash,
                    outcome |-> r.outcome, repeat |-> FALSE]
        /\ UNCHANGED <<version, last_upload_hash>>

Next ==
    \/ \E file_bytes \in FileBytes : ImportZones(file_bytes)
    \/ \E drawing \in Drawings, typed \in TypedLabels : SaveZone(drawing, typed)

Spec == Init /\ [][Next]_vars

(***************************************************************************)
(* Vocabulary of the properties                                            *)
(***************************************************************************)
ZoneOf(zs, label) == zs[CHOOSE i \in DOMAIN zs : zs[i].label = label]

\* The region of a polygon as a set of cells, and containment read off it:
\* a grid point is interior iff the four cells around it are covered.
Region(geom) == {c \in Grid : Covers(geom, c)}

InteriorPoint(geom, p) ==
    \A dx \in {0, 1}, dy \in {0, 1} : <<p[1] - dx, p[2] - dy>> \in Region(geom)

Members(geom) == {c.id : c \in {r \in Range(gdf) : InteriorPoint(geom, r.pt)}}

Ids(rows) == {rows[i].id : i \in DOMAIN rows}

\* The records of the file imported last, as the loop sees them.
LastRecords == json_loads(decode(last.file_bytes)).data.records

LastIsFeatureCollection == decode(last.file_bytes).top = "FeatureCollection"

\* The import block ran its try statement (was not skipped by the guard).
LastImportRan == last.op = "import" /\ last.outcome # "info"

\* Record k was reached and stored: no record up to k raised.
Stored(k) == \A j \in 1..k : shape(LastRecords[j].geometry).ok

\* The store right after the first k records of the last import.
StoreAfter(k) ==
    IF LastIsFeatureCollection
    THEN feature_loop(last.before, SubSeq(LastRecords, 1, k), 1).zones
    ELSE legacy_loop(last.before, SubSeq(LastRecords, 1, k), 1).zones

\* The label record k is stored under.
LabelOf(k) ==
    IF LastIsFeatureCollection /\ LastRecords[k].name = NoName
    THEN ZoneLabel(Len(StoreAfter(k - 1)) + 1)
    ELSE LastRecords[k].name

\* No later stored record of the same import takes record k's label.
Final(k) ==
    \A j \in (k + 1)..Len(LastRecords) : Stored(j) => LabelOf(j) # LabelOf(k)

Cycle == <<"red", "blue", "green", "purple", "orange">>

(***************************************************************************)
(* Properties                                                              *)
(***************************************************************************)

\* C1: importing the same bytes twice in a row leaves the store after the
\* second import equal to the store after the first, and the second import
\* reports no error.
C1_ReimportIsIdempotent ==
    (last.op = "import" /\ last.repeat) =>
        (zones = last.before /\ last.outcome # "error")

\* C2: when a feature-collection import ends, every record with a valid
\* geometry is in the store, whether it stands before or after a record that
\* failed.
C2_ValidRecordsSurviveFailure ==
    (LastImportRan /\ LastIsFeatureCollection) =>
        \A k \in DOMAIN LastRecords :
            (shape(LastRecords[k].geometry).ok /\ LastRecords[k].name # NoName) =>
                /\ HasLabel(zones, LastRecords[k].name)
                /\ Region(ZoneOf(zones, LastRecords[k].name).geometry)
                       = Region(shape(LastRecords[k].geometry).geom)

\* C3: after a failed import, importing any other file that imports cleanly
\* gives the store that importing it would have given had the failed import
\* never run.
C3_FailedImportLeavesNoTrace ==
    (last.op = "import" /\ last.outcome = "error") =>
        \A fb \in FileBytes \ {last.file_bytes} :
            LET direct == import_block(version, last.before, last.hash_before, fb)
                retry  == import_block(version, zones, last_upload_hash, fb)
            IN  direct.outcome = "success" => retry.zones = direct.zones

C5_DuplicateShapeRejected ==
    (/\ last.op = "save"
     /\ \E i \in DOMAIN last.before :
           Region(last.before[i].geometry) = Region(shape(last.drawing).geom))
        => zones = last.before

\* C5 witness: a drawing was turned away although its ring differs from the
\* stored one (other start vertex and winding), the stored zone came from an
\* import, and the label offered was new.
C5_Witness ==
    /\ last.op = "save"
    /\ last.outcome = "hidden"
    /\ ~HasLabel(last.before, text_input(last.before, last.typed))
    /\ zones = last.before
    /\ \E i \in DOMAIN zones :
          /\ zones[i].color = "teal"
          /\ Region(zones[i].geometry) = Region(shape(last.drawing).geom)
          /\ zones[i].geometry.ring # shape(last.drawing).geom.ring

\* C6: importing the export of a non-empty store into an empty store gives
\* the same labels in the same order, the same region and color per label,
\* and members equal to the containment computed from the roster.
C6_ExportImportRoundTrip ==
    zones # << >> =>
        LET back == import_text(<< >>, js(zones))
        IN  /\ back.ok
            /\ Len(back.zones) = Len(zones)
            /\ \A i \in DOMAIN zones :
                  /\ back.zones[i].label = zones[i].label
                  /\ Region(back.zones[i].geometry) = Region(zones[i].geometry)
                  /\ back.zones[i].color = zones[i].color
                  /\ Ids(back.zones[i].data) = Members(zones[i].geometry)

\* C7: a zone saved from a drawing gets palette[N mod 5], N the number of
\* zones just before the save, also when the label is overwritten and when
\* earlier zones were imported.
C7_DrawColorCycles ==
    (last.op = "save" /\ last.outcome = "success") =>
        ZoneOf(zones, text_input(last.before, last.typed)).color
            = Cycle[(Len(last.before) % 5) + 1]

\* C7 witness: a save that overwrote an imported label in a store of five
\* imported zones, and so wrapped around to "red".
C7_Witness ==
    /\ last.op = "save"
    /\ last.outcome = "success"
    /\ Len(last.before) = 5
    /\ Len(zones) = 5
    /\ HasLabel(last.before, Str("North"))
    /\ last.typed = Str("North")
    /\ ZoneOf(last.before, Str("North")).color = "red"
    /\ ZoneOf(zones, Str("North")).color = "red"
    /\ ZoneOf(zones, Str("North")).geometry # ZoneOf(last.before, Str("North")).geometry

\* C8: every stored zone's members are exactly the roster customers whose
\* point lies inside the zone's current geometry.
C8_MembersMatchGeometry ==
    \A i \in DOMAIN zones :
        /\ Ids(zones[i].data) = Members(zones[i].geometry)
        /\ Len(zones[i].data) = Cardinality(Ids(zones[i].data))

\* C8 witness: a label was overwritten with a smaller geometry and lost
\* members, among them a customer on the new boundary.
C8_Witness ==
    \E i \in DOMAIN last.before :
        /\ i \in DOMAIN zones
        /\ zones[i].label = last.before[i].label
        /\ Region(zones[i].geometry) # Region(last.before[i].geometry)
        /\ Ids(last.before[i].data) = {"A", "B", "C"}
        /\ Ids(zones[i].data) = {"A"}
        /\ OnBoundary(zones[i].geometry.ring, <<2, 1>>)

\* C9: every stored zone's count is the length of its members.
C9_CountIsLenMembers ==
    \A i \in DOMAIN zones : zones[i].count = Len(zones[i].data)

\* C9 witness: a partially applied import stored a zone with one member
\* next to zones with another count.
C9_Witness ==
    /\ last.op = "import"
    /\ last.outcome = "error"
    /\ zones # last.before
    /\ \E i \in DOMAIN zones, j \in DOMAIN zones :
          /\ zones[i].count = 1
          /\ Len(zones[i].data) = 1
          /\ zones[j].count = 3

\* C10: in v1.4 every import attempt leaves the fingerprint at the hash of
\* its bytes, whatever its outcome; an import of the bytes imported just
\* before is skipped and changes neither store nor fingerprint; an import
\* whose bytes differ from the last attempt's is not skipped.
C10_GuardRemembersLastUpload ==
    (version = "v1.4" /\ last.op = "import") =>
        /\ last_upload_hash = << hash(last.file_bytes) >>
        /\ last.repeat =>
              /\ last.outcome = "info"
              /\ zones = last.before
              /\ last_upload_hash = last.hash_before
        /\ last.hash_before # << hash(last.file_bytes) >> => last.outcome # "info"
        /\ last.outcome = "info" => zones = last.before

\* C10 witness: a file imported before was imported again in full after a
\* failed import of another file had come in between.
C10_Witness ==
    /\ version = "v1.4"
    /\ last.op = "import"
    /\ last.outcome = "success"
    /\ HasLabel(last.before, Num("1"))
    /\ \E i \in DOMAIN last.before : last.before[i].color = "teal"
    /\ Len(last.before) = 3
    /\ LastRecords[2].name = Num("1")
    /\ Len(zones) = 4

====
